---- MODULE Spec2Model ----
(***************************************************************************)
(* Model of the HouseMate mock backend (server.js): an Express application *)
(* with one custom route, POST /api/v1/auth/login, a URL rewriter that     *)
(* strips the /api/v1 prefix, and the json-server router over db.json.     *)
(*                                                                         *)
(* JSON values are tagged: a string "555" and a number 555 are different   *)
(* values, so that === (strict equality) is record equality.  A JSON       *)
(* object is a function from the names of the fields it has to values; a   *)
(* collection is a sequence of such objects.  A URL path is the sequence   *)
(* of its segments: /api/v1/users/1 is <<"api","v1","users","1">>, a       *)
(* trailing slash is a last empty segment, and / is <<"">>.                *)
(***************************************************************************)
EXTENDS Integers, Sequences, FiniteSets, TLC

VARIABLES db, disk, boot, before, pending, pc, req, res, dispatch, session

vars == <<db, disk, boot, before, pending, pc, req, res, dispatch, session>>

(***************************************************************************)
(* Bounds of the model.                                                    *)
(***************************************************************************)
\* longest collection the model creates or starts with
MaxDocs == 2
\* failed logins in a row that a caller keeps count of
MaxFailed == 3
\* requests that may wait for the server at the same time
MaxPending == 2

(***************************************************************************)
(* JSON / JavaScript values.                                               *)
(***************************************************************************)
Str(s) == [t |-> "string", v |-> s]

\* a number, carried by its decimal rendering
Num(s) == [t |-> "number", v |-> s]

\* the value of a property that an object does not have
Undefined == [t |-> "undefined", v |-> "undefined"]

\* o.k : property access
Get(o, k) == IF k \in DOMAIN o THEN o[k] ELSE Undefined

\* a == b : a number and a string are compared by their text
LooseEquals(a, b) == a.v = b.v

\* a === b : same type and same value, no coercion
StrictEquals(a, b) == a.t = b.t /\ a.v = b.v

\* String(x), the conversion that  'literal' + x  and  x.toString()  apply
JSString(x) == x.v

\* the empty object {}
EmptyObject == [k \in {} |-> Undefined]

(***************************************************************************)
(* The custom login route, server.post('/api/v1/auth/login', ...).         *)
(***************************************************************************)
\* find with the password comparison left out
RECURSIVE findByPhone(_, _, _, _)
findByPhone(users, i, phone, password) ==
    IF i > Len(users) THEN 0
    ELSE IF StrictEquals(Get(users[i], "phone"), phone)
         THEN i
         ELSE findByPhone(users, i + 1, phone, password)

\* a scan that keeps the last match instead of stopping at the first
RECURSIVE findLast(_, _, _, _)
findLast(users, i, phone, password) ==
    IF i > Len(users) THEN 0
    ELSE LET later == findLast(users, i + 1, phone, password)
         IN  IF later # 0 THEN later
             ELSE IF /\ StrictEquals(Get(users[i], "phone"), phone)
                     /\ StrictEquals(Get(users[i], "password"), password)
                  THEN i
                  ELSE 0

\* users.find(u => u.phone === phone && u.password === password), scanning
\* from index i: the index of the first match, 0 when there is none
RECURSIVE find(_, _, _, _)
find(users, i, phone, password) ==
    IF i > Len(users) THEN 0
    ELSE IF /\ StrictEquals(Get(users[i], "phone"), phone)
            /\ StrictEquals(Get(users[i], "password"), password)
         THEN i
         ELSE find(users, i + 1, phone, password)

\* the destructuring with the field name misspelt: nothing is removed
userWithPassword(user) == [k \in DOMAIN user \ {"Password"} |-> user[k]]

\* a copy that keeps only the fields the client is known to use
userPublicFields(user) == [k \in DOMAIN user \cap {"id", "phone"} |-> user[k]]

\* const { password, ...userWithoutPassword } = user
userWithoutPassword(user) == [k \in DOMAIN user \ {"password"} |-> user[k]]

\* the token built from another field of the record
tokenFromPhone(user) == "mock-jwt-token-" \o JSString(Get(user, "phone"))

\* 'mock-jwt-token-' + user.id
token(user) == "mock-jwt-token-" \o JSString(Get(user, "id"))

\* the failure answered without res.status(401)
InvalidCredentialsOk == [status |-> 200, body |-> [message |-> Str("Invalid credentials")]]

\* res.status(401).json({ message: 'Invalid credentials' })
InvalidCredentials == [status |-> 401, body |-> [message |-> Str("Invalid credentials")]]

\* what Express answers when a handler throws
ServerError(message) == [status |-> 500, body |-> [error |-> Str(message)]]

\* a handler that looks the user up by phone and then checks the password,
\* with a message for each failure
loginHandlerTellsWhich(body, store) ==
    IF "users" \notin DOMAIN store
    THEN ServerError("TypeError: Cannot read properties of undefined (reading 'find')")
    ELSE LET users == store["users"]
             i == find(users, 1, Get(body, "phone"), Get(body, "password"))
             known == \E j \in 1..Len(users) :
                         StrictEquals(Get(users[j], "phone"), Get(body, "phone"))
         IN  IF i # 0
             THEN [status |-> 200,
                   body |-> [token |-> Str(token(users[i])),
                             user |-> userWithoutPassword(users[i])]]
             ELSE IF known
             THEN [status |-> 401, body |-> [message |-> Str("Wrong password")]]
             ELSE [status |-> 401, body |-> [message |-> Str("Unknown phone")]]

\* a handler that takes a missing users collection for an empty one
loginHandlerDefaultsEmpty(body, store) ==
    LET users == IF "users" \in DOMAIN store THEN store["users"] ELSE << >>
        i == find(users, 1, Get(body, "phone"), Get(body, "password"))
    IN  IF i # 0
        THEN [status |-> 200,
              body |-> [token |-> Str(token(users[i])),
                        user |-> userWithoutPassword(users[i])]]
        ELSE InvalidCredentials

\* a handler that copies the other fields of the request body into the
\* user object it returns
loginHandlerEcho(body, store) ==
    IF "users" \notin DOMAIN store
    THEN ServerError("TypeError: Cannot read properties of undefined (reading 'find')")
    ELSE LET users == store["users"]
             i == find(users, 1, Get(body, "phone"), Get(body, "password"))
             sent == userWithoutPassword(users[i])
             extra == DOMAIN body \ ({"phone", "password"} \cup DOMAIN sent)
         IN  IF i # 0
             THEN [status |-> 200,
                   body |-> [token |-> Str(token(users[i])),
                             user |-> [k \in DOMAIN sent \cup extra |->
                                          IF k \in extra THEN body[k] ELSE sent[k]]]]
             ELSE InvalidCredentials

\* the response of the login handler to a request body, over a store; the
\* store is only read.  db.get('users').value() is undefined when the store
\* has no users collection, and users.find then throws a TypeError.
loginHandler(body, store) ==
    IF "users" \notin DOMAIN store
    THEN ServerError("TypeError: Cannot read properties of undefined (reading 'find')")
    ELSE LET phone == Get(body, "phone")
             password == Get(body, "password")
             users == store["users"]
             i == find(users, 1, phone, password)
         IN  IF i # 0
             THEN [status |-> 200,
                   body |-> [token |-> Str(token(users[i])),
                             user |-> userWithoutPassword(users[i])]]
             ELSE InvalidCredentials

\* the password removed with  delete user.password  on the stored record
loginStoreDeletes(body, store) ==
    IF "users" \notin DOMAIN store THEN store
    ELSE LET users == store["users"]
             i == find(users, 1, Get(body, "phone"), Get(body, "password"))
         IN  IF i = 0 THEN store
             ELSE [store EXCEPT !["users"] =
                      [users EXCEPT ![i] = userWithoutPassword(users[i])]]

\* the store after the login handler has run: the handler reads router.db
\* and copies the matched record without writing to either
loginStore(body, store) == store

(***************************************************************************)
(* URL paths, Express route matching and the rewriter.                     *)
(***************************************************************************)
\* lower-casing of a path segment, for Express's case-insensitive matching
Lower(s) ==
    CASE s = "API" -> "api"
      [] s = "V1" -> "v1"
      [] s = "AUTH" -> "auth"
      [] s = "LOGIN" -> "login"
      [] OTHER -> s

LowerPath(url) == [i \in 1..Len(url) |-> Lower(url[i])]

\* Express routing is not strict: one trailing slash is ignored
StripTrailingSlash(url) ==
    IF Len(url) > 1 /\ url[Len(url)] = "" THEN SubSeq(url, 1, Len(url) - 1) ELSE url

\* the route registered for every method, as server.use or server.all would
matchesAnyMethod(method, url) ==
    LowerPath(StripTrailingSlash(url)) = <<"api", "v1", "auth", "login">>

\* server.post('/api/v1/auth/login', ...): does the route match the request
matchesLoginRoute(method, url) ==
    /\ method = "POST"
    /\ LowerPath(StripTrailingSlash(url)) = <<"api", "v1", "auth", "login">>

\* the rule written '/api/*': '/$1', which strips one segment only
rewriterApiOnly(url) ==
    IF Len(url) >= 2 /\ Lower(url[1]) = "api"
    THEN SubSeq(url, 2, Len(url))
    ELSE url

\* jsonServer.rewriter({ '/api/v1/*': '/$1' }): a URL /api/v1/<rest> becomes
\* /<rest>, any other URL is left as it is
rewriter(url) ==
    IF Len(url) >= 3 /\ Lower(url[1]) = "api" /\ Lower(url[2]) = "v1"
    THEN SubSeq(url, 3, Len(url))
    ELSE url

(***************************************************************************)
(* The generic resource server, jsonServer.router('db.json'): collection   *)
(* CRUD over the store, which it writes back to the snapshot after a       *)
(* mutating route.  It is external to server.js; it is modelled here by    *)
(* its documented behaviour, without query-string filters, nested routes   *)
(* and the removal of dependent documents.                                 *)
(***************************************************************************)
\* the decimal digits, for ids that are small numbers
Digits == <<"1", "2", "3", "4", "5", "6", "7", "8", "9">>

\* Number(x) of an id, 0 standing for NaN and for undefined
ToNumber(x) ==
    IF \E n \in DOMAIN Digits : Digits[n] = x.v
    THEN CHOOSE n \in DOMAIN Digits : Digits[n] = x.v
    ELSE 0

\* the decimal rendering of a small number
Decimal(n) == Digits[n]

\* the place of an id string in the lexicographic order of strings
StringRank(str) ==
    IF \E n \in DOMAIN Digits : Digits[n] = str
    THEN CHOOSE n \in DOMAIN Digits : Digits[n] = str
    ELSE IF str = "Zx3kQ1a" THEN 10 ELSE 11

\* a > b on ids: two strings compare as strings, anything else as numbers,
\* and a comparison with NaN is false
Greater(a, b) ==
    IF a.t = "string" /\ b.t = "string"
    THEN StringRank(a.v) > StringRank(b.v)
    ELSE ToNumber(a) # 0 /\ ToNumber(b) # 0 /\ ToNumber(a) > ToNumber(b)

\* getById: the index of the first document whose id, as a string, is id;
\* 0 when there is none
RECURSIVE getById(_, _, _)
getById(coll, i, id) ==
    IF i > Len(coll) THEN 0
    ELSE IF Get(coll[i], "id") # Undefined /\ JSString(Get(coll[i], "id")) = id
         THEN i
         ELSE getById(coll, i + 1, id)

\* maxBy(coll, 'id'): the index of the document with the greatest id among
\* documents i.., best being the index found so far (0: none)
RECURSIVE maxById(_, _, _)
maxById(coll, i, best) ==
    IF i > Len(coll) THEN best
    ELSE IF /\ Get(coll[i], "id") # Undefined
            /\ \/ best = 0
               \/ Greater(Get(coll[i], "id"), Get(coll[best], "id"))
         THEN maxById(coll, i + 1, i)
         ELSE maxById(coll, i + 1, best)

\* createId: 1 for an empty collection, the greatest id plus one when that
\* is a number, and otherwise the random string fresh
createId(coll, fresh) ==
    IF Len(coll) = 0 THEN Num("1")
    ELSE LET m == maxById(coll, 1, 0)
             id == IF m = 0 THEN Undefined ELSE Get(coll[m], "id")
         IN  IF id.t = "number" THEN Num(Decimal(ToNumber(id) + 1)) ELSE Str(fresh)

\* the answer of the router when no route produced data
NotFound == [status |-> 404, body |-> EmptyObject]

\* GET /<name>
list(store, name) ==
    [res |-> [status |-> 200, body |-> store[name]], db |-> store, wrote |-> FALSE]

\* GET /<name>/<id>
show(store, name, id) ==
    LET i == getById(store[name], 1, id)
    IN  [res |-> IF i = 0 THEN NotFound ELSE [status |-> 200, body |-> store[name][i]],
         db |-> store, wrote |-> FALSE]

\* POST /<name>: insert the body, with a created id when it has none; an id
\* already in the collection makes insert throw
create(store, name, body, fresh) ==
    LET coll == store[name]
        doc == IF "id" \in DOMAIN body THEN body
               ELSE [k \in DOMAIN body \cup {"id"} |->
                        IF k = "id" THEN createId(coll, fresh) ELSE body[k]]
    IN  IF getById(coll, 1, JSString(doc["id"])) # 0
        THEN [res |-> ServerError("Error: Insert failed, duplicate id"),
              db |-> store, wrote |-> FALSE]
        ELSE [res |-> [status |-> 201, body |-> doc],
              db |-> [store EXCEPT ![name] = Append(coll, doc)],
              wrote |-> TRUE]

\* PUT /<name>/<id> replaces the document, PATCH merges the body into it;
\* both keep the document's id
update(store, name, id, method, body) ==
    LET coll == store[name]
        i == getById(coll, 1, id)
        attrs == [k \in DOMAIN body \ {"id"} |-> body[k]]
        keep == IF method = "PATCH" THEN DOMAIN coll[i] ELSE {"id"}
        doc == [k \in keep \cup DOMAIN attrs |->
                   IF k \in DOMAIN attrs THEN attrs[k] ELSE coll[i][k]]
    IN  IF i = 0
        THEN [res |-> NotFound, db |-> store, wrote |-> TRUE]
        ELSE [res |-> [status |-> 200, body |-> doc],
              db |-> [store EXCEPT ![name] = [coll EXCEPT ![i] = doc]],
              wrote |-> TRUE]

\* DELETE /<name>/<id>
destroy(store, name, id) ==
    LET coll == store[name]
        i == getById(coll, 1, id)
    IN  IF i = 0
        THEN [res |-> NotFound, db |-> store, wrote |-> TRUE]
        ELSE [res |-> [status |-> 200, body |-> EmptyObject],
              db |-> [store EXCEPT ![name] =
                         SubSeq(coll, 1, i - 1) \o SubSeq(coll, i + 1, Len(coll))],
              wrote |-> TRUE]

\* the router on a request whose URL has been rewritten
router(method, url, body, store, fresh) ==
    LET path == StripTrailingSlash(url)
        none == [res |-> NotFound, db |-> store, wrote |-> FALSE]
    IN  IF method = "GET" /\ path = <<"db">>
        THEN [res |-> [status |-> 200, body |-> store], db |-> store, wrote |-> FALSE]
        ELSE IF path[1] \notin DOMAIN store THEN none
        ELSE IF Len(path) = 1
             THEN CASE method = "GET" -> list(store, path[1])
                    [] method = "POST" -> create(store, path[1], body, fresh)
                    [] OTHER -> none
        ELSE IF Len(path) = 2
             THEN CASE method = "GET" -> show(store, path[1], path[2])
                    [] method \in {"PUT", "PATCH"} ->
                         update(store, path[1], path[2], method, body)
                    [] method = "DELETE" -> destroy(store, path[1], path[2])
                    [] OTHER -> none
        ELSE none

(***************************************************************************)
(* The stores the server may be started on and the requests it is sent.    *)
(***************************************************************************)
\* the user of the documented example
UserA ==
    [id |-> Str("1"), phone |-> Str("555-0100"), password |-> Str("pw1"),
     name |-> Str("A")]

\* a second record with the same credentials and a numeric id
UserTwin == [id |-> Num("2"), phone |-> Str("555-0100"), password |-> Str("pw1")]

\* a record whose phone is a number and whose password differs in case
UserNumeric == [id |-> Num("3"), phone |-> Num("5550100"), password |-> Str("PW1")]

\* a record with neither phone nor password
UserBare == [id |-> Str("4"), name |-> Str("B")]

\* a record without an identifier
UserNoId == [phone |-> Str("5550100"), password |-> Str("pw1")]

UserDocs == {UserA, UserTwin, UserNumeric, UserBare, UserNoId}

RECURSIVE SeqsUpTo(_, _)
SeqsUpTo(S, n) ==
    IF n = 0 THEN {<< >>}
    ELSE LET shorter == SeqsUpTo(S, n - 1)
         IN  shorter \cup {Append(q, x) : q \in shorter, x \in S}

Bookings == <<[id |-> Num("1"), status |-> Str("UPCOMING")]>>

\* the contents of db.json at process start: a users collection of up to
\* MaxDocs records, or no users collection at all
Snapshots ==
    {[users |-> u, bookings |-> Bookings] : u \in SeqsUpTo(UserDocs, MaxDocs)}
        \cup {[bookings |-> Bookings]}

Methods == {"GET", "POST", "PUT", "PATCH", "DELETE"}

Phones == {Str("555-0100"), Str("5550100"), Num("5550100")}

Passwords == {Str("pw1"), Str("PW1"), Str(" pw1"), Str("wrong")}

\* bodies of login requests: phone and password each present or missing,
\* with or without a field the handler does not read
LoginBodies ==
    {EmptyObject}
        \cup {[phone |-> p] : p \in Phones}
        \cup {[password |-> w] : w \in Passwords}
        \cup {[phone |-> p, password |-> w] : p \in Phones, w \in Passwords}
        \cup {[phone |-> Str("555-0100"), password |-> Str("pw1"), otp |-> Str("0000")]}

\* bodies of create and update requests, by the collection addressed: a
\* password change and a record with the credentials of UserA for users,
\* the acceptance of a booking for bookings.  Requests also creates users
\* from a body that carries its own id.
WriteBodies(url) ==
    LET path == rewriter(url)
    IN  IF path[1] = "users"
        THEN {[password |-> Str("pw2")],
              [phone |-> Str("555-0100"), password |-> Str("pw1")]}
        ELSE IF path[1] = "bookings"
        THEN {[status |-> Str("CONFIRMED")]}
        ELSE {[id |-> Num("1"), status |-> Str("CONFIRMED")]}

LoginUrl == <<"api", "v1", "auth", "login">>

\* other spellings of the login URL
LoginUrlVariants ==
    { <<"api", "v1", "auth", "login", "">>, <<"api", "v1", "auth", "LOGIN">>,
      <<"auth", "login">> }

\* paths of the generic resource layer
ResourcePaths ==
    { <<"users">>, <<"users", "1">>, <<"users", "2">>, <<"bookings", "1">>,
      <<"db">>, <<"auth", "login">>, <<"">> }

Urls ==
    ResourcePaths \cup {<<"api", "v1">> \o p : p \in ResourcePaths}
        \cup {<<"api", "v1">>}

\* a request; auth is its Authorization header, "" when it has none
Request(method, url, body) ==
    [method |-> method, url |-> url, body |-> body, auth |-> ""]

WithAuth(r, a) == [r EXCEPT !.auth = a]

Requests ==
    {Request("POST", LoginUrl, b) : b \in LoginBodies}
        \cup {Request("POST", u, b) : u \in LoginUrlVariants,
                                       b \in {EmptyObject,
                                              [phone |-> Str("555-0100"),
                                               password |-> Str("pw1")]}}
        \cup {Request(m, u, EmptyObject) : m \in {"GET", "DELETE"}, u \in Urls}
        \cup UNION {{Request(m, u, b) : m \in {"POST", "PUT", "PATCH"},
                                         b \in WriteBodies(u)} : u \in Urls}
        \cup {Request("POST", u, UserTwin) :
                 u \in {<<"users">>, <<"api", "v1", "users">>}}

\* the random ids the generator of the router may produce
NanoIds == {"Zx3kQ1a", "p0Lm2Wd"}

NoRequest == Request("", << >>, EmptyObject)

NoResponse == [status |-> 0, body |-> EmptyObject]

\* sent counts the responses written for the request
NoDispatch == [handler |-> "none", url |-> << >>, sent |-> 0]

\* what a caller knows of its logins so far: the outcome of the last one,
\* the number of failed ones in a row (counted up to MaxFailed), and the
\* identifier and token of the last one answered 200
NoSession == [last |-> "none", failed |-> 0, id |-> Undefined, token |-> ""]

\* a collection of the store is full when it holds MaxDocs documents; the
\* model sends no create request for a full collection
Admissible(r, store) ==
    LET path == StripTrailingSlash(rewriter(r.url))
    IN  (r.method = "POST" /\ Len(path) = 1 /\ path[1] \in DOMAIN store)
            => Len(store[path[1]]) < MaxDocs

(***************************************************************************)
(* The server: one request at a time goes through the middleware chain of  *)
(* server.js -- the login route, then the rewriter and the router.         *)
(***************************************************************************)
\* the server starts on a snapshot: the router loads db.json into memory.
\* boot is the record an observer keeps of the snapshot found at start.
StartOn(snapshot, record) ==
    /\ db = snapshot
    /\ disk = snapshot
    /\ boot = record
    /\ before = snapshot
    /\ pending = {}
    /\ pc = "idle"
    /\ req = NoRequest
    /\ res = NoResponse
    /\ dispatch = NoDispatch
    /\ session = NoSession

\* no record of the snapshot found at start
NoRecord == EmptyObject

Init == \E snapshot \in Snapshots : StartOn(snapshot, NoRecord)

\* a request arrives
Receive(r) ==
    /\ pc = "idle"
    /\ Admissible(r, db)
    /\ pc' = "received"
    /\ req' = r
    /\ before' = db
    /\ UNCHANGED <<db, disk, boot, pending, res, dispatch, session>>

\* the login route behind a counter that locks a caller out after
\* MaxFailed failed logins in a row
LoginWithLockout ==
    /\ pc = "received"
    /\ matchesLoginRoute(req.method, req.url)
    /\ res' = IF session.failed >= MaxFailed
              THEN [status |-> 429, body |-> [message |-> Str("Too many attempts")]]
              ELSE loginHandler(req.body, db)
    /\ db' = loginStore(req.body, db)
    /\ dispatch' = [handler |-> "login", url |-> req.url, sent |-> 1]
    /\ pc' = "responded"
    /\ UNCHANGED <<disk, boot, before, pending, req, session>>

\* the login route reading a users list taken once, when the server started
LoginOnBootSnapshot ==
    /\ pc = "received"
    /\ matchesLoginRoute(req.method, req.url)
    /\ res' = loginHandler(req.body, boot)
    /\ db' = loginStore(req.body, db)
    /\ dispatch' = [handler |-> "login", url |-> req.url, sent |-> 1]
    /\ pc' = "responded"
    /\ UNCHANGED <<disk, boot, before, pending, req, session>>

\* the login route without its else branch: it answers a match and leaves
\* any other request open
LoginWithoutElse ==
    /\ pc = "received"
    /\ matchesLoginRoute(req.method, req.url)
    /\ loginHandler(req.body, db).status = 200
    /\ res' = loginHandler(req.body, db)
    /\ db' = loginStore(req.body, db)
    /\ dispatch' = [handler |-> "login", url |-> req.url, sent |-> 1]
    /\ pc' = "responded"
    /\ UNCHANGED <<disk, boot, before, pending, req, session>>

\* server.post('/api/v1/auth/login', ...) matches and answers the request
Login ==
    /\ pc = "received"
    /\ matchesLoginRoute(req.method, req.url)
    /\ res' = loginHandler(req.body, db)
    /\ db' = loginStore(req.body, db)
    /\ dispatch' = [handler |-> "login", url |-> req.url, sent |-> 1]
    /\ pc' = "responded"
    /\ UNCHANGED <<disk, boot, before, pending, req, session>>

\* the router behind a render step that removes the password of a document
\* it sends, as the login handler does
ResourceWithoutPassword ==
    /\ pc = "received"
    /\ ~matchesLoginRoute(req.method, req.url)
    /\ \E fresh \in NanoIds :
          LET out == router(req.method, rewriter(req.url), req.body, db, fresh)
          IN  /\ res' = IF "password" \in DOMAIN out.res.body
                        THEN [out.res EXCEPT !.body = userWithoutPassword(out.res.body)]
                        ELSE out.res
              /\ db' = out.db
              /\ disk' = IF out.wrote THEN out.db ELSE disk
    /\ dispatch' = [handler |-> "router", url |-> rewriter(req.url), sent |-> 1]
    /\ pc' = "responded"
    /\ UNCHANGED <<boot, before, pending, req, session>>

\* the router behind a guard that turns away requests without a token
ResourceWithToken ==
    /\ pc = "received"
    /\ ~matchesLoginRoute(req.method, req.url)
    /\ \E fresh \in NanoIds :
          LET out == router(req.method, rewriter(req.url), req.body, db, fresh)
              ok == req.auth # ""
          IN  /\ res' = IF ok THEN out.res
                        ELSE [status |-> 401, body |-> [message |-> Str("Unauthorized")]]
              /\ db' = IF ok THEN out.db ELSE db
              /\ disk' = IF ok /\ out.wrote THEN out.db ELSE disk
    /\ dispatch' = [handler |-> "router", url |-> rewriter(req.url), sent |-> 1]
    /\ pc' = "responded"
    /\ UNCHANGED <<boot, before, pending, req, session>>

\* the router behind a guard that accepts an update only while the document
\* is not yet confirmed, and answers 409 after that
ResourceRejectsConflict ==
    /\ pc = "received"
    /\ ~matchesLoginRoute(req.method, req.url)
    /\ \E fresh \in NanoIds :
          LET url == rewriter(req.url)
              out == router(req.method, url, req.body, db, fresh)
              path == StripTrailingSlash(url)
              taken == /\ req.method \in {"PUT", "PATCH"}
                       /\ Len(path) = 2 /\ path[1] \in DOMAIN db
                       /\ \E i \in 1..Len(db[path[1]]) :
                             /\ getById(db[path[1]], 1, path[2]) = i
                             /\ Get(db[path[1]][i], "status") = Str("CONFIRMED")
          IN  /\ res' = IF taken
                        THEN [status |-> 409, body |-> [message |-> Str("Already confirmed")]]
                        ELSE out.res
              /\ db' = IF taken THEN db ELSE out.db
              /\ disk' = IF ~taken /\ out.wrote THEN out.db ELSE disk
    /\ dispatch' = [handler |-> "router", url |-> rewriter(req.url), sent |-> 1]
    /\ pc' = "responded"
    /\ UNCHANGED <<boot, before, pending, req, session>>

\* the router over a store that is kept in memory only: nothing is written
\* back to db.json
ResourceWithoutWrite ==
    /\ pc = "received"
    /\ ~matchesLoginRoute(req.method, req.url)
    /\ \E fresh \in NanoIds :
          LET out == router(req.method, rewriter(req.url), req.body, db, fresh)
          IN  /\ res' = out.res
              /\ db' = out.db
    /\ disk' = disk
    /\ dispatch' = [handler |-> "router", url |-> rewriter(req.url), sent |-> 1]
    /\ pc' = "responded"
    /\ UNCHANGED <<boot, before, pending, req, session>>

\* any other request falls through to the rewriter and then the router
Resource ==
    /\ pc = "received"
    /\ ~matchesLoginRoute(req.method, req.url)
    /\ \E fresh \in NanoIds :
          LET out == router(req.method, rewriter(req.url), req.body, db, fresh)
          IN  /\ res' = out.res
              /\ db' = out.db
              /\ disk' = IF out.wrote THEN out.db ELSE disk
    /\ dispatch' = [handler |-> "router", url |-> rewriter(req.url), sent |-> 1]
    /\ pc' = "responded"
    /\ UNCHANGED <<boot, before, pending, req, session>>

\* the response has been sent and the request is over; the caller is left
\* with history s
FinishWith(s) ==
    /\ pc = "responded"
    /\ pc' = "idle"
    /\ req' = NoRequest
    /\ res' = NoResponse
    /\ dispatch' = NoDispatch
    /\ before' = db
    /\ session' = s
    /\ UNCHANGED <<db, disk, boot, pending>>

\* the server keeps nothing of a request once it is answered
Finish == FinishWith(session)

Next ==
    \/ \E r \in Requests : Receive(r)
    \/ Login
    \/ Resource
    \/ Finish

Spec == Init /\ [][Next]_vars

TypeOK ==
    /\ pc \in {"idle", "received", "responded"}
    /\ disk = db
    /\ pc = "idle" => before = db

(***************************************************************************)
(* Properties of the login route.                                          *)
(***************************************************************************)
\* the request in flight is POST /api/v1/auth/login and has been answered
LoginAnswered == pc = "responded" /\ req.method = "POST" /\ req.url = LoginUrl

\* the store the request was handled on had a users collection
HadUsers == "users" \in DOMAIN before

\* record u has the phone and the password of the request body; a field
\* that is missing reads as undefined on either side
SameCredentials(u, body) ==
    /\ Get(u, "phone") = Get(body, "phone")
    /\ Get(u, "password") = Get(body, "password")

\* the positions of the stored users with the credentials of the request
Matching == {i \in 1..Len(before["users"]) : SameCredentials(before["users"][i], req.body)}

\* C1: over every users collection and every request body, the login
\* endpoint answers 200 if and only if some stored user has the phone and
\* the password of the body, and 401 in every other case
LoginStatusIffMatch ==
    (LoginAnswered /\ HadUsers) =>
        IF Matching # {} THEN res.status = 200 ELSE res.status = 401

\* a login answered 200 on the second of two stored users, the first of
\* which has the phone of the request but another password
LoginStatusWitness ==
    /\ LoginAnswered /\ HadUsers
    /\ res.status = 200
    /\ Matching = {2}
    /\ Get(before["users"][1], "phone") = Get(req.body, "phone")

\* C2: the user object of a 200 login response has no password field,
\* whatever fields the matched record carries
NoPasswordInLoginResponse ==
    (LoginAnswered /\ res.status = 200) => "password" \notin DOMAIN res.body["user"]

\* a login answered 200 for a stored record that has a password field
NoPasswordWitness ==
    /\ LoginAnswered /\ HadUsers
    /\ res.status = 200
    /\ \E i \in Matching : "password" \in DOMAIN before["users"][i]

\* C3: the user object of a 200 login response is a matching stored record
\* without its password field: the same other fields with the stored values
\* and no field added
LoginUserIsRecordMinusPassword ==
    (LoginAnswered /\ HadUsers /\ res.status = 200) =>
        \E i \in Matching :
            LET u == before["users"][i]
                sent == res.body["user"]
            IN  /\ DOMAIN sent = DOMAIN u \ {"password"}
                /\ \A k \in DOMAIN sent : sent[k] = u[k]

\* a login answered 200 for a record with a field besides id, phone and
\* password
LoginUserWitness ==
    /\ LoginAnswered /\ HadUsers
    /\ res.status = 200
    /\ \E i \in Matching : "name" \in DOMAIN before["users"][i]
    /\ "name" \in DOMAIN res.body["user"]

\* the body of a failed login, exactly { "message": "Invalid credentials" }
InvalidCredentialsBody == [message |-> Str("Invalid credentials")]

\* C5 as amended: whenever the store has a users collection and no stored
\* user matches the login request, the response has status 401 and its body
\* is exactly { "message": "Invalid credentials" }, without token or user
NoMatchAnswers401 ==
    (LoginAnswered /\ HadUsers /\ Matching = {}) =>
        /\ res.status = 401
        /\ res.body = InvalidCredentialsBody
        /\ DOMAIN res.body = {"message"}

\* a login answered on a store whose users have the phone of the request,
\* none of them with its password
NoMatchWitness ==
    /\ LoginAnswered /\ HadUsers
    /\ Matching = {}
    /\ \E i \in 1..Len(before["users"]) :
          Get(before["users"][i], "phone") = Get(req.body, "phone")
    /\ res.status = 401

\* C5 as stated: whenever no stored user matches the login request -- a
\* store without a users collection included -- the response is the 401
\* with body { "message": "Invalid credentials" }
NoMatchAlways401 ==
    (LoginAnswered /\ (HadUsers => Matching = {})) =>
        /\ res.status = 401
        /\ res.body = InvalidCredentialsBody

\* C6 as stated: a login request whose body lacks phone or lacks password
\* matches no stored user and is answered 401, for every content of the
\* users collection
MissingFieldAnswers401 ==
    (/\ LoginAnswered /\ HadUsers
     /\ ("phone" \notin DOMAIN req.body \/ "password" \notin DOMAIN req.body)) =>
        res.status = 401

\* C7: a login request, answered 200 or not, leaves the whole store as it
\* was, the matched record and its password field included, and the
\* snapshot with it
LoginLeavesStoreUnchanged ==
    LoginAnswered => (db = before /\ disk = before)

\* a login answered 200 for a record with a password, the record still in
\* the store with its password
LoginReadOnlyWitness ==
    /\ LoginAnswered /\ HadUsers
    /\ res.status = 200
    /\ \E i \in Matching :
          /\ "password" \in DOMAIN before["users"][i]
          /\ db["users"][i] = before["users"][i]

(***************************************************************************)
(* Properties of the rewriter and of the generic resource layer.           *)
(***************************************************************************)
\* the request in flight has been answered, its URL is /api/v1/<path> and
\* it is not one the login route takes
PrefixedAnswered ==
    /\ pc = "responded"
    /\ Len(req.url) >= 3 /\ req.url[1] = "api" /\ req.url[2] = "v1"
    /\ ~matchesLoginRoute(req.method, req.url)

\* the path <path> of a URL /api/v1/<path>
Unprefixed(url) == SubSeq(url, 3, Len(url))

\* C8: a request to /api/v1/<path>, of any method and on any store, gets
\* the response and leaves the store that the same request to /<path> gets
\* and leaves on the generic resource layer, the POST login route aside
PrefixRewriteTransparent ==
    PrefixedAnswered =>
        \E fresh \in NanoIds :
            LET out == router(req.method, Unprefixed(req.url), req.body, before, fresh)
            IN  /\ res = out.res
                /\ db = out.db

\* an update sent to /api/v1/users/<id> has been applied and answered 200
PrefixRewriteWitness ==
    /\ PrefixedAnswered
    /\ req.method = "PATCH"
    /\ Len(req.url) = 4 /\ req.url[3] = "users"
    /\ res.status = 200
    /\ db # before

\* the path of the request in flight on the generic layer
ResourcePath ==
    StripTrailingSlash(IF Len(req.url) >= 3 /\ req.url[1] = "api" /\ req.url[2] = "v1"
                       THEN Unprefixed(req.url) ELSE req.url)

\* document d is a record of collection coll
IsRecordOf(d, coll) == \E i \in 1..Len(coll) : coll[i] = d

\* the positions in the users collection of the records with identifier id
WithId(id) ==
    {i \in 1..Len(before["users"]) :
        /\ "id" \in DOMAIN before["users"][i]
        /\ before["users"][i]["id"].v = id}

\* C9: GET /api/v1/users/<id> answers 200 with the full stored record of
\* that id, password field included, and no response other than that of the
\* login route shows a user record with its password removed: a list is the
\* stored collection, a document is a stored record
GenericLayerReturnsFullRecord ==
    (pc = "responded" /\ HadUsers /\ ~matchesLoginRoute(req.method, req.url)) =>
        /\ (/\ req.method = "GET" /\ Len(req.url) = 4
            /\ SubSeq(req.url, 1, 3) = <<"api", "v1", "users">>
            /\ WithId(req.url[4]) # {}) =>
               /\ res.status = 200
               /\ \E i \in WithId(req.url[4]) :
                     /\ res.body = before["users"][i]
                     /\ \A j \in WithId(req.url[4]) : i <= j
        /\ (req.method = "GET" /\ ResourcePath = <<"users">>) =>
               res.body = before["users"]
        /\ (req.method = "GET" /\ ResourcePath = <<"db">>) => res.body = before
        /\ (/\ res.status \in {200, 201}
            /\ req.method \in {"GET", "POST", "PUT", "PATCH"}
            /\ ResourcePath[1] = "users"
            /\ Len(ResourcePath) = 2 \/ req.method = "POST") =>
               IsRecordOf(res.body, db["users"])

\* GET /api/v1/users/<id> has been answered with a record that has a
\* password
FullRecordWitness ==
    /\ PrefixedAnswered /\ HadUsers
    /\ req.method = "GET" /\ Len(req.url) = 4 /\ req.url[3] = "users"
    /\ res.status = 200
    /\ "password" \in DOMAIN res.body
    /\ res.body = before["users"][1]

(***************************************************************************)
(* One caller followed across its requests.  The server keeps no session;  *)
(* session is what the caller itself has seen of its logins, and the       *)
(* Authorization header is whatever the caller chooses to send.            *)
(***************************************************************************)
SessionSnapshots ==
    { [users |-> <<UserA, UserTwin>>, bookings |-> Bookings],
      [users |-> <<UserNoId, UserNumeric>>, bookings |-> Bookings],
      [users |-> <<UserBare>>, bookings |-> Bookings],
      [users |-> <<UserA, UserBare>>, bookings |-> Bookings],
      [bookings |-> Bookings] }

SessionLoginBodies ==
    { EmptyObject,
      [phone |-> Str("555-0100"), password |-> Str("pw1")],
      [phone |-> Str("555-0100"), password |-> Str("wrong")],
      [phone |-> Str("555-0100"), password |-> Str("pw2")],
      [phone |-> Str("5550100"), password |-> Str("pw1")],
      [phone |-> Str("555-0100"), password |-> Str("pw1"), otp |-> Str("0000")] }

AuthHeaders == {"", "Bearer mock-jwt-token-1", "Bearer forged"}

SessionRequests ==
    {WithAuth(r, a) :
        r \in {Request("POST", LoginUrl, b) : b \in SessionLoginBodies}
                \cup {Request("GET", u, EmptyObject) :
                         u \in {<<"users", "1">>, <<"api", "v1", "users", "1">>,
                                <<"api", "v1", "db">>}}
                \cup {Request("DELETE", <<"api", "v1", "users", "1">>, EmptyObject),
                      Request("PATCH", <<"api", "v1", "users", "1">>,
                              [password |-> Str("pw2")]),
                      Request("PUT", <<"api", "v1", "users", "2">>,
                              [phone |-> Str("555-0100"), password |-> Str("pw1")]),
                      Request("POST", <<"api", "v1", "users">>,
                              [phone |-> Str("555-0100"), password |-> Str("pw1")]),
                      Request("PATCH", <<"bookings", "1">>,
                              [status |-> Str("CONFIRMED")])},
        a \in AuthHeaders}

\* the caller's history after the answered request: a login changes it,
\* any other request leaves it
Seen ==
    IF ~(req.method = "POST" /\ req.url = LoginUrl) THEN session
    ELSE IF res.status = 200
         THEN [last |-> "ok", failed |-> 0, id |-> Get(res.body["user"], "id"),
               token |-> res.body["token"].v]
         ELSE [session EXCEPT !.last = "failed",
                              !.failed = IF @ < MaxFailed THEN @ + 1 ELSE @]

FinishSeen == FinishWith(Seen)

InitSessions == \E snapshot \in SessionSnapshots : StartOn(snapshot, snapshot)

NextSessions ==
    \/ \E r \in SessionRequests : Receive(r)
    \/ Login
    \/ Resource
    \/ FinishSeen

SpecSessions == InitSessions /\ [][NextSessions]_vars

\* the identifier of record u as it appears in a string
IdText(u) == IF "id" \in DOMAIN u THEN u["id"].v ELSE "undefined"

\* C4: the token of a 200 login response is the literal mock-jwt-token-
\* followed by the identifier of a matched record, and a caller that logs
\* in again as a user with the identifier of its last successful login
\* gets the token it got then, whatever was requested in between
TokenIsPrefixAndId ==
    (LoginAnswered /\ HadUsers /\ res.status = 200) =>
        /\ \E i \in Matching :
              res.body["token"] = Str("mock-jwt-token-" \o IdText(before["users"][i]))
        /\ (session.token # "" /\ session.id = Get(res.body["user"], "id")) =>
               res.body["token"].v = session.token

\* a caller logs in again, after a failed login, as the user of an earlier
\* successful login
TokenWitness ==
    /\ LoginAnswered /\ HadUsers
    /\ res.status = 200
    /\ session.last = "failed"
    /\ session.token = "mock-jwt-token-1"
    /\ session.id = Get(res.body["user"], "id")

\* C10: a request that the login route does not take is answered by the
\* router on the store alone: the same response and the same resulting
\* store whether the caller never logged in, failed or succeeded at login,
\* and whatever Authorization header it sends
NoAuthenticationEnforced ==
    (pc = "responded" /\ ~(req.method = "POST" /\ req.url = LoginUrl)) =>
        \E fresh \in NanoIds :
            LET out == router(req.method, ResourcePath, req.body, before, fresh)
            IN  /\ res = out.res
                /\ db = out.db

\* a caller whose only login failed, sending no token, has changed a user
\* record
NoAuthenticationWitness ==
    /\ pc = "responded"
    /\ session.last = "failed" /\ session.token = ""
    /\ req.auth = ""
    /\ req.method = "PATCH" /\ ResourcePath = <<"users", "1">>
    /\ res.status = 200
    /\ db # before

\* C11: a 401 on login is recoverable by retrying: after any number of
\* failed logins in a row, a login with the credentials of a stored user
\* is answered 200; no count of attempts locks the caller out
RetryAfterFailuresSucceeds ==
    \A n \in 0..MaxFailed :
        (LoginAnswered /\ HadUsers /\ session.failed = n /\ Matching # {}) =>
            res.status = 200

\* a login answered 200 after MaxFailed failed logins in a row
RetryWitness ==
    /\ LoginAnswered /\ HadUsers
    /\ session.last = "failed" /\ session.failed = MaxFailed
    /\ Matching # {}
    /\ res.status = 200

(***************************************************************************)
(* Request dispatch.                                                       *)
(***************************************************************************)
\* url is /api/v1/auth/login up to letter case and one trailing slash
SpellsLoginUrl(url) ==
    /\ Len(url) \in {4, 5}
    /\ Len(url) = 5 => url[5] = ""
    /\ \A i \in 1..4 : Lower(url[i]) = LoginUrl[i]

\* url is under /api/v1/
UnderPrefix(url) == Len(url) >= 3 /\ url[1] = "api" /\ url[2] = "v1"

\* the answered request went, unrewritten, to the login handler alone
ToLoginHandler == dispatch.handler = "login" /\ dispatch.url = req.url

\* the answered request went to the router with the prefix stripped
ToRouterStripped == dispatch.handler = "router" /\ dispatch.url = Unprefixed(req.url)

\* C12 as amended: a POST whose path is /api/v1/auth/login, letter case and
\* one trailing slash aside, is answered by the login handler and is not
\* rewritten or handed to the router; every other request under /api/v1/,
\* a non-POST request to /api/v1/auth/login included, has the prefix
\* stripped and is handed to the router; a request to /auth/login never
\* reaches the login handler
DispatchOrder ==
    pc = "responded" =>
        /\ (req.method = "POST" /\ SpellsLoginUrl(req.url)) => ToLoginHandler
        /\ (UnderPrefix(req.url) /\ ~(req.method = "POST" /\ SpellsLoginUrl(req.url))) =>
               ToRouterStripped
        /\ (req.url = <<"auth", "login">>) => dispatch.handler = "router"

\* a POST to /api/v1/auth/login/ has been answered 200 by the login handler
DispatchWitness ==
    /\ pc = "responded"
    /\ req.method = "POST" /\ req.url = <<"api", "v1", "auth", "login", "">>
    /\ ToLoginHandler
    /\ res.status = 200

\* C12 as stated: only a POST to exactly /api/v1/auth/login is answered by
\* the login handler, and every other request under /api/v1/ has the prefix
\* stripped and is handed to the router
DispatchExactUrlOnly ==
    pc = "responded" =>
        /\ (req.method = "POST" /\ req.url = LoginUrl) => ToLoginHandler
        /\ (UnderPrefix(req.url) /\ ~(req.method = "POST" /\ req.url = LoginUrl)) =>
               ToRouterStripped
        /\ (req.url = <<"auth", "login">>) => dispatch.handler = "router"

(***************************************************************************)
(* Exactness and order of the match.                                       *)
(***************************************************************************)
\* the text of a value without its letter case and surrounding blanks
Folded(x) ==
    CASE x.v = "PW1" -> "pw1"
      [] x.v = " pw1" -> "pw1"
      [] OTHER -> x.v

\* values a and b are both there and differ at most in letter case,
\* surrounding characters or type
AlikeInForm(a, b) == a # Undefined /\ b # Undefined /\ Folded(a) = Folded(b)

\* record u is not a match for the body, but would be if letter case,
\* surrounding characters and type were ignored
NearMiss(u, body) ==
    /\ AlikeInForm(Get(u, "phone"), Get(body, "phone"))
    /\ AlikeInForm(Get(u, "password"), Get(body, "password"))
    /\ ~SameCredentials(u, body)

\* the response is the 200 built from stored record u
BuiltFrom(u) ==
    /\ res.status = 200
    /\ res.body["user"] = [k \in DOMAIN u \ {"password"} |-> u[k]]
    /\ res.body["token"] = Str("mock-jwt-token-" \o IdText(u))

\* C13: matching is exact equality of both fields without normalisation or
\* coercion: a stored user whose phone or password differs from the
\* request's only in letter case, surrounding characters or type is not
\* matched -- the login fails unless another record matches exactly, and
\* then the response is built from that record
ExactMatchOnly ==
    (LoginAnswered /\ HadUsers) =>
        \A i \in 1..Len(before["users"]) :
            NearMiss(before["users"][i], req.body) =>
                /\ Matching = {} => res.status = 401
                /\ res.status = 200 =>
                      \E j \in Matching : j # i /\ BuiltFrom(before["users"][j])

\* a login answered 401 although a stored user has the phone of the request
\* as a number instead of a string, and its password
ExactMatchWitness ==
    /\ LoginAnswered /\ HadUsers
    /\ res.status = 401
    /\ \E i \in 1..Len(before["users"]) :
          /\ NearMiss(before["users"][i], req.body)
          /\ Get(before["users"][i], "phone").t = "number"
          /\ Get(req.body, "phone").t = "string"
          /\ Get(before["users"][i], "password") = Get(req.body, "password")

(***************************************************************************)
(* The login route and the writes of the generic layer.                    *)
(***************************************************************************)
\* the users the server started with, none when there was no collection
BootUsers == IF "users" \in DOMAIN boot THEN boot["users"] ELSE << >>

\* the positions of the users the server started with that have the
\* credentials of the request
BootMatching == {i \in 1..Len(BootUsers) : SameCredentials(BootUsers[i], req.body)}

\* C14: login reads the live store, not the snapshot taken at start: the
\* credentials of a user created, or of a password set, through the generic
\* layer are answered 200, and those of a user since deleted, or of a
\* password since replaced, are answered 401
LoginReadsLiveStore ==
    (LoginAnswered /\ HadUsers) =>
        /\ (Matching # {} /\ BootMatching = {}) =>
               \E j \in Matching : BuiltFrom(before["users"][j])
        /\ (Matching = {} /\ BootMatching # {}) => res.status = 401

\* the old password of a user is answered 401 after the password was
\* updated through the generic layer
LiveStoreWitness ==
    /\ LoginAnswered /\ HadUsers
    /\ res.status = 401
    /\ \E i \in BootMatching :
          \E j \in 1..Len(before["users"]) :
              /\ Get(before["users"][j], "id") = Get(BootUsers[i], "id")
              /\ Get(before["users"][j], "phone") = Get(req.body, "phone")
              /\ Get(before["users"][j], "password") = Str("pw2")

\* a user created through the generic layer logs in
CreatedUserLogsIn ==
    /\ LoginAnswered /\ HadUsers /\ res.status = 200
    /\ BootMatching = {}
    /\ \A j \in Matching : j > Len(BootUsers)

\* the credentials of a deleted user are answered 401
DeletedUserRejected ==
    /\ LoginAnswered /\ HadUsers /\ res.status = 401
    /\ BootMatching # {}
    /\ Len(before["users"]) < Len(BootUsers)

\* the new password of a user is answered 200
NewPasswordLogsIn ==
    /\ LoginAnswered /\ HadUsers /\ res.status = 200
    /\ BootMatching = {}
    /\ Get(req.body, "password") = Str("pw2")
    /\ \E j \in Matching : j <= Len(BootUsers)

\* C15: when several stored users have the credentials of the request, the
\* login succeeds with the token and user object of the first of them in
\* the order of the collection, and of no other record
FirstMatchWins ==
    (LoginAnswered /\ HadUsers /\ Matching # {}) =>
        LET first == CHOOSE i \in Matching : \A j \in Matching : i <= j
        IN  /\ BuiltFrom(before["users"][first])
            /\ \A j \in Matching :
                  before["users"][j] # before["users"][first] =>
                      ~BuiltFrom(before["users"][j])

\* a login answered for two stored users with the same credentials and
\* different identifiers
FirstMatchWitness ==
    /\ LoginAnswered /\ HadUsers
    /\ res.status = 200
    /\ Matching = {1, 2}
    /\ IdText(before["users"][1]) # IdText(before["users"][2])

(***************************************************************************)
(* Statelessness, errors and what a failed login shows.                    *)
(***************************************************************************)
\* the phone and password of a request body, its other fields left out
Credentials(body) == [k \in DOMAIN body \cap {"phone", "password"} |-> body[k]]

\* the users collection of a store, its other collections left out
UsersOnly(store) == [k \in DOMAIN store \cap {"users"} |-> store[k]]

\* C16: the response of a login is a function of the users collection and
\* of the phone and password of the request alone: it is the response to
\* those two fields over that collection, whatever the caller requested
\* before, whatever the other collections hold and whatever else the body
\* carries
LoginIsStateless ==
    LoginAnswered => res = loginHandler(Credentials(req.body), UsersOnly(before))

\* a login answered 200 for a body with a further field, by a caller that
\* has logged in before, on a store whose bookings have changed since start
StatelessWitness ==
    /\ LoginAnswered /\ HadUsers
    /\ res.status = 200
    /\ "otp" \in DOMAIN req.body
    /\ session.last # "none"
    /\ before["bookings"] # boot["bookings"]

\* the answered request is a create whose body carries the identifier of a
\* document already in the collection, which makes the store's insert throw
DuplicateInsert ==
    /\ req.method = "POST" /\ dispatch.handler = "router"
    /\ Len(ResourcePath) = 1 /\ ResourcePath[1] \in DOMAIN before
    /\ "id" \in DOMAIN req.body
    /\ \E i \in 1..Len(before[ResourcePath[1]]) :
          IdText(before[ResourcePath[1]][i]) = req.body["id"].v

\* C17: an error of the store during a request -- for login, a store
\* without a users collection; for a create, an insert that throws -- is
\* answered 500, once, never 200 or 401, and the store is left as it was
StoreErrorAnswers500 ==
    (pc = "responded" /\ ((dispatch.handler = "login" /\ ~HadUsers) \/ DuplicateInsert)) =>
        /\ res.status = 500
        /\ dispatch.sent = 1
        /\ db = before

\* a login on a store without a users collection has been answered 500
StoreErrorWitness ==
    /\ LoginAnswered
    /\ ~HadUsers
    /\ res.status = 500
    /\ "token" \notin DOMAIN res.body

\* some stored user has the phone of the request
KnownPhone ==
    \E i \in 1..Len(before["users"]) :
        Get(before["users"][i], "phone") = Get(req.body, "phone")

\* the values stored in the users collection
StoredValues ==
    UNION {{before["users"][i][k] : k \in DOMAIN before["users"][i]} :
              i \in 1..Len(before["users"])}

\* the one response of a failed login
FailedLogin == [status |-> 401, body |-> InvalidCredentialsBody]

\* C18: a failed login does not show which part was wrong: the response for
\* a phone no stored user has is the response for a stored phone with a
\* wrong password, and it carries no stored value
FailedLoginRevealsNothing ==
    (LoginAnswered /\ HadUsers /\ Matching = {}) =>
        /\ KnownPhone => res = FailedLogin
        /\ ~KnownPhone => res = FailedLogin
        /\ \A k \in DOMAIN res.body : res.body[k] \notin StoredValues

\* a login with the phone of a stored user and its password in another
\* letter case has been answered 401
FailedLoginWitness ==
    /\ LoginAnswered /\ HadUsers
    /\ res.status = 401
    /\ \E i \in 1..Len(before["users"]) :
          /\ Get(before["users"][i], "phone") = Get(req.body, "phone")
          /\ Get(before["users"][i], "password") = Str("pw1")
          /\ Get(req.body, "password") = Str("PW1")

(***************************************************************************)
(* The handler is synchronous: once Express has called it, it runs to its  *)
(* res.json, and so does the router; a response written is sent.  These    *)
(* steps are therefore taken whenever they can be.                         *)
(***************************************************************************)
SpecLive ==
    SpecSessions /\ WF_vars(Login) /\ WF_vars(Resource) /\ WF_vars(FinishSeen)

\* the request in flight is POST /api/v1/auth/login
LoginInFlight == req.method = "POST" /\ req.url = LoginUrl

\* C19: a POST /api/v1/auth/login that arrives at a store with a users list
\* is answered, by the login handler and with 200 or 401; once it is
\* answered nothing more is written for it, and the router never gets it
LoginAnsweredOnce ==
    /\ (pc = "received" /\ LoginInFlight /\ "users" \in DOMAIN db)
          ~> (pc = "responded" /\ LoginInFlight /\ dispatch.sent = 1)
    /\ []((LoginAnswered /\ HadUsers) =>
             /\ dispatch.handler = "login"
             /\ dispatch.sent = 1
             /\ res.status \in {200, 401})
    /\ [][(LoginAnswered /\ HadUsers) =>
             /\ pc' = "idle"
             /\ dispatch'.sent = 0]_vars

\* a login on a store with a users list has been answered, once, by the
\* login handler
LoginAnsweredOnceWitness ==
    /\ LoginAnswered /\ HadUsers
    /\ dispatch = [handler |-> "login", url |-> LoginUrl, sent |-> 1]
    /\ res.status \in {200, 401}
    /\ session.failed > 0

(***************************************************************************)
(* Several requests in flight.  Node handles one request at a time and the *)
(* router and its write are synchronous, so requests interleave as wholes, *)
(* in any order: pending holds the requests sent and not yet handled.      *)
(***************************************************************************)
\* the accept request of an expert (the transcript's acceptRequest), with
\* the expert named in the body
Accept(expert) == [status |-> Str("CONFIRMED"), expertId |-> Str(expert)]

Experts == {"e1", "e2"}

ConcurrentRequests ==
    {Request("PATCH", <<"api", "v1", "bookings", "1">>, Accept(e)) : e \in Experts}
        \cup {Request("PUT", <<"bookings", "1">>, Accept(e)) : e \in Experts}
        \cup {Request("PATCH", <<"api", "v1", "bookings", "1">>,
                      [status |-> Str("CANCELLED")]),
              Request("PATCH", <<"api", "v1", "users", "1">>, [name |-> Str("Z")]),
              Request("GET", <<"api", "v1", "bookings", "1">>, EmptyObject),
              Request("DELETE", <<"api", "v1", "bookings", "1">>, EmptyObject),
              Request("POST", LoginUrl,
                      [phone |-> Str("555-0100"), password |-> Str("pw1")])}

ConcurrentSnapshots ==
    { [users |-> <<UserA>>, bookings |-> Bookings],
      [users |-> <<UserA>>,
       bookings |-> <<[id |-> Str("1"), status |-> Str("UPCOMING"),
                       note |-> Str("call first")]>>] }

InitConcurrent == \E snapshot \in ConcurrentSnapshots : StartOn(snapshot, NoRecord)

\* a client sends a request while others are still waiting
Arrive(r) ==
    /\ r \notin pending
    /\ Cardinality(pending) < MaxPending
    /\ pending' = pending \cup {r}
    /\ UNCHANGED <<db, disk, boot, before, pc, req, res, dispatch, session>>

\* the server takes one of the waiting requests, whichever
Take ==
    /\ pc = "idle"
    /\ \E r \in pending :
          /\ pending' = pending \ {r}
          /\ req' = r
    /\ pc' = "received"
    /\ before' = db
    /\ UNCHANGED <<db, disk, boot, res, dispatch, session>>

NextConcurrent ==
    \/ \E r \in ConcurrentRequests : Arrive(r)
    \/ Take
    \/ Login
    \/ Resource
    \/ Finish

SpecConcurrent == InitConcurrent /\ [][NextConcurrent]_vars

\* the position of the document the request names, in collection coll
Target(coll) == getById(coll, 1, ResourcePath[2])

\* a PUT or PATCH of a document the store held has been answered
UpdateAnswered ==
    /\ pc = "responded" /\ dispatch.handler = "router"
    /\ req.method \in {"PUT", "PATCH"}
    /\ Len(ResourcePath) = 2 /\ ResourcePath[1] \in DOMAIN before
    /\ Target(before[ResourcePath[1]]) # 0

\* C20: an update of a stored document succeeds whatever was written to the
\* document before it, by a request sent earlier or at the same time: it is
\* answered 200 and the stored document then has the values of its body
\* (and, for a PATCH, the other values it had); no request is answered with
\* a conflict
LastWriteWins ==
    /\ UpdateAnswered =>
          LET name == ResourcePath[1]
              i == Target(before[name])
              old == before[name][i]
              new == db[name][i]
          IN  /\ res.status = 200
              /\ res.body = new
              /\ Len(db[name]) = Len(before[name])
              /\ DOMAIN req.body \ {"id"} \subseteq DOMAIN new
              /\ \A k \in DOMAIN new :
                    new[k] = IF k \in DOMAIN req.body \ {"id"} THEN req.body[k]
                             ELSE old[k]
              /\ req.method = "PATCH" => DOMAIN old \subseteq DOMAIN new
              /\ req.method = "PUT" => DOMAIN new = (DOMAIN req.body) \cup {"id"}
    /\ pc = "responded" => res.status \notin {409, 412, 423}

\* the booking one expert had confirmed has been confirmed again by the
\* other, with 200, and now names the other, while a further request waits
LastWriteWinsWitness ==
    /\ UpdateAnswered /\ res.status = 200 /\ pending # {}
    /\ ResourcePath = <<"bookings", "1">>
    /\ LET i == Target(before["bookings"])
       IN  /\ before["bookings"][i]["status"] = Str("CONFIRMED")
           /\ Get(before["bookings"][i], "expertId") = Str("e1")
           /\ Get(db["bookings"][i], "expertId") = Str("e2")

\* the request in flight reads only, or goes to the login route
ReadOrLogin ==
    pc = "received" /\ (req.method = "GET" \/ matchesLoginRoute(req.method, req.url))

\* C21: the store and db.json both start as the snapshot found at start;
\* every step leaves db.json equal to the store, so it is after each
\* create, update and delete; a read or a login leaves db.json as it was
SnapshotTracksStore ==
    /\ db = boot /\ disk = boot
    /\ [][/\ disk' = db'
          /\ ReadOrLogin => disk' = disk]_vars

\* a create, update or delete has changed the store, and db.json holds the
\* changed store and no longer the snapshot found at start
SnapshotWitness ==
    /\ pc = "responded" /\ dispatch.handler = "router"
    /\ req.method \in {"POST", "PUT", "PATCH", "DELETE"}
    /\ res.status \in {200, 201}
    /\ db # before
    /\ disk = db /\ disk # boot

====
